---- MODULE Spec2Model ----
(***************************************************************************)
(* Model of the user-account code of saas-boilerplate:                     *)
(*   src/api/server/models/User.ts  (UserClass statics, mongoSchema)       *)
(*   src/api/server/auth.ts         (OAuth verify callbacks and routes)    *)
(*                                                                         *)
(* Every request is an async function: between two awaits other requests   *)
(* run.  A request is a process with a program counter; one action is one  *)
(* stretch of code between awaits, the database operation it awaits        *)
(* included.  The store is the users collection with its unique indexes.   *)
(* OAuth token maps are modelled in their decrypted view: the encryption   *)
(* plugin encrypts on save and decrypts on load, and no operation here     *)
(* reads a token.                                                          *)
(***************************************************************************)
EXTENDS Integers, Sequences, FiniteSets, TLC

VARIABLES
  users,            \* the users collection: _id -> document
  teams,            \* the teams collection (external): _id -> [memberIds]
  pc,               \* per request: where it stands
  call,             \* per request: the operation and its arguments
  local,            \* per request: its local variables
  result,           \* per request: what it returned or threw
  calls,            \* number of requests started so far
  session,          \* the browser session: next_url, invitationToken, user
  query,            \* the query of the latest '/auth/<type>' request
  response          \* the response to the latest request of the OAuth routes

vars == <<users, teams, pc, call, local, result, calls, session, query, response>>

(* ------------------------------ bounds -------------------------------- *)

MaxCalls == 3

Procs == {"r1", "r2"}
Types == {"google", "microsoft"}
Emails == {"a@x", "b@x"}
OAuthIds == {"o1", "o2"}
Tokens == {"t1"}
Names == {"ann", "bob"}
Uids == {"e1", "e2"}
TeamIds == {"team1", "team2"}

(* ---------------------------- documents ------------------------------- *)

\* '' / undefined / null of the source
None == ""

\* Map<string,string> of a provider's tokens, default undefined
NoTokens == [t \in Types |-> None]

NoUser == [_id |-> None]

\* `${type}Id`
IdField(type) == IF type = "google" THEN "googleId" ELSE "microsoftId"

\* the ObjectId mongoose gives a new document (users are never deleted)
NewObjectId(us) == "u" \o ToString(Cardinality(DOMAIN us) + 1)

\* _.isEmpty(oauthToken): no own enumerable key
IsEmpty(tok) == DOMAIN tok = {}

\* oauthToken.accessToken / oauthToken.refreshToken, undefined when absent
TokenOf(tok, key) == IF key \in DOMAIN tok THEN tok[key] ELSE None

EmptyToken == [k \in {} |-> None]

\* { refreshToken?: string; accessToken?: string }: {}, or what auth.ts passes: the
\* access token of the exchange and the refresh token, if the provider issued one
OAuthTokens == {EmptyToken} \cup
  {[accessToken |-> a, refreshToken |-> r] : a \in Tokens, r \in Tokens \cup {None}}

\* what the provider's profile of an account carries (auth.ts verify): profile.displayName
ProfileName(oauthId) == IF oauthId = "o1" THEN "ann" ELSE "bob"

\* profile.photos[0].value for google, avatarUrl: undefined for microsoft
ProfileAvatar(type) == IF type = "google" THEN "pic" ELSE None

(* ----------------------------- slugify -------------------------------- *)

\* utils/slugify: the URL-safe form of a name
Slugify(name) ==
  CASE name = "a@x" -> "a-x"
    [] name = "b@x" -> "b-x"
    [] OTHER -> name

SlugTaken(us, s) == \E id \in DOMAIN us : us[id].slug = s

\* utils/slugify generateSlug: the name's slug, or the first free <slug>-<n>
GenerateSlug(us, name) ==
  LET base == Slugify(name)
      n == CHOOSE k \in 1..(Cardinality(DOMAIN us) + 1) :
             /\ ~SlugTaken(us, base \o "-" \o ToString(k))
             /\ \A j \in 1..(k - 1) : SlugTaken(us, base \o "-" \o ToString(j))
  IN IF ~SlugTaken(us, base) THEN base ELSE base \o "-" \o ToString(n)

(* ------------------------- the users collection ----------------------- *)

\* the schema with slug not unique
UniqueIndexesNoSlug == {"email", "googleId", "microsoftId"}

\* the schema with email not unique
UniqueIndexesNoEmail == {"slug", "googleId", "microsoftId"}

\* the fields of mongoSchema with unique: true
UniqueIndexes == {"email", "slug", "googleId", "microsoftId"}

\* googleId and microsoftId are sparse: a document without the field is not indexed
Indexed(doc, f) == IF f \in {"googleId", "microsoftId"} THEN doc[f] # None ELSE TRUE

\* E11000: another document holds the same value under a unique index
DuplicateKey(us, doc) ==
  \E id \in DOMAIN us \ {doc._id} : \E f \in UniqueIndexes :
    Indexed(doc, f) /\ us[id][f] = doc[f]

\* required: true (email, slug)
Valid(doc) == doc.email # None /\ doc.slug # None

DbError(us, doc, isNew) ==
  IF ~Valid(doc) THEN "ValidationError"
  ELSE IF (isNew /\ doc._id \in DOMAIN us) \/ DuplicateKey(us, doc) THEN "E11000 duplicate key"
  ELSE None

\* the collection with the document written
Put(us, doc) == [id \in DOMAIN us \cup {doc._id} |-> IF id = doc._id THEN doc ELSE us[id]]

(* ------------------------------ requests ------------------------------ *)

NoCall == [op |-> "none"]
NoTeam == [_id |-> None]
NoLocal == [user |-> NoUser, team |-> NoTeam, oauthToken |-> EmptyToken, slug |-> None, hasInvitation |-> FALSE,
            mail |-> "none", subscribe |-> "none"]
NoResult == [status |-> "none"]

Ok(v) == [status |-> "ok", value |-> v]
Err(msg) == [status |-> "error", error |-> msg]

\* the Team collection is not written by this code: what it may hold
TeamCollections ==
  {[id \in {"team1"} |-> [_id |-> id, memberIds |-> m]] : m \in {<<"u1", "e1">>, <<"e2">>, <<>>}}

\* JavaScript values of a query parameter or a session field
Undefined == [type |-> "undefined"]
Null == [type |-> "null"]
Str(s) == [type |-> "string", value |-> s]
Arr(a) == [type |-> "array", value |-> a]

NoQuery == [next |-> Undefined, invitationToken |-> Undefined]
NoSession == [next_url |-> Undefined, invitationToken |-> Undefined, user |-> None]
NoResponse == [handler |-> "none"]

InitRequests ==
  /\ session = NoSession
  /\ query = NoQuery
  /\ response = NoResponse
  /\ users = [id \in {} |-> NoUser]
  /\ pc = [p \in Procs |-> "idle"]
  /\ call = [p \in Procs |-> NoCall]
  /\ local = [p \in Procs |-> NoLocal]
  /\ result = [p \in Procs |-> NoResult]
  /\ calls = 0

Init == teams = [id \in {"team1"} |-> [_id |-> id, memberIds |-> <<"u1", "e1">>]] /\ InitRequests

InitTeam == teams \in TeamCollections /\ InitRequests

Finish(p, res) ==
  /\ pc' = [pc EXCEPT ![p] = "done"]
  /\ result' = [result EXCEPT ![p] = res]

Goto(p, label) ==
  /\ pc' = [pc EXCEPT ![p] = label]
  /\ UNCHANGED result

\* requests take the first free slot, and a finished request has left before
\* the next step is taken
Earlier(p) == IF p = "r2" THEN {"r1"} ELSE {}

Running == \A q \in Procs : pc[q] # "done"

Begin(p, c) ==
  /\ pc[p] = "idle"
  /\ Running
  /\ \A q \in Earlier(p) : pc[q] # "idle"
  /\ calls < MaxCalls
  /\ calls' = calls + 1
  /\ call' = [call EXCEPT ![p] = c]

\* what the UserClass statics leave alone
External == <<teams, session, query, response>>

(* ---------------------- UserClass.signInOrSignUp ---------------------- *)

\* findOne({ $or: [{ email }, { [oAuthFields.Id]: oauthId }] }): the matching documents
Matches(us, type, email, oauthId) ==
  {id \in DOMAIN us : us[id].email = email \/ us[id][IdField(type)] = oauthId}

\* the document findOne gives: any one of the matching documents, null if none
FindOne(us, type, email, oauthId) ==
  IF Matches(us, type, email, oauthId) = {} THEN {NoUser}
  ELSE {us[id] : id \in Matches(us, type, email, oauthId)}

\* Merge without line 353: the provider id is not backfilled
MergeNoBackfill(user, type, oauthId, tok) ==
  LET withAccess == IF TokenOf(tok, "accessToken") # None
                    THEN [user EXCEPT !.oAuthAccessToken[type] = TokenOf(tok, "accessToken")]
                    ELSE user
  IN IF TokenOf(tok, "refreshToken") # None
     THEN [withAccess EXCEPT !.oAuthRefreshToken[type] = TokenOf(tok, "refreshToken")]
     ELSE withAccess

\* Merge without the guards of lines 356 and 361: the tokens are set even when undefined
MergeOverwritesTokens(user, type, oauthId, tok) ==
  LET withId == IF user[IdField(type)] = None
                THEN [user EXCEPT ![IdField(type)] = oauthId] ELSE user
  IN [withId EXCEPT !.oAuthAccessToken[type] = TokenOf(tok, "accessToken"),
                    !.oAuthRefreshToken[type] = TokenOf(tok, "refreshToken")]

\* the in-memory changes to the found user (lines 352-364)
Merge(user, type, oauthId, tok) ==
  LET withId == IF user[IdField(type)] = None
                THEN [user EXCEPT ![IdField(type)] = oauthId] ELSE user
      withAccess == IF TokenOf(tok, "accessToken") # None
                    THEN [withId EXCEPT !.oAuthAccessToken[type] = TokenOf(tok, "accessToken")]
                    ELSE withId
  IN IF TokenOf(tok, "refreshToken") # None
     THEN [withAccess EXCEPT !.oAuthRefreshToken[type] = TokenOf(tok, "refreshToken")]
     ELSE withAccess

\* user.save() of a loaded document: $set of the modified paths on the stored document
Delta(stored, loaded, changed, type) ==
  [stored EXCEPT
     ![IdField(type)] = IF changed[IdField(type)] # loaded[IdField(type)]
                        THEN changed[IdField(type)] ELSE @,
     !.oAuthAccessToken[type] = IF changed.oAuthAccessToken[type] # loaded.oAuthAccessToken[type]
                                THEN changed.oAuthAccessToken[type] ELSE @,
     !.oAuthRefreshToken[type] = IF changed.oAuthRefreshToken[type] # loaded.oAuthRefreshToken[type]
                                 THEN changed.oAuthRefreshToken[type] ELSE @]

\* NewOAuthUser without lines 389-391: the refresh token is dropped
NewOAuthUserNoRefresh(id, type, oauthId, email, displayName, avatarUrl, slug, tok) ==
  LET base == [_id |-> id, email |-> email, displayName |-> displayName,
               avatarUrl |-> avatarUrl, slug |-> slug, defaultTeamSlug |-> None,
               googleId |-> None, microsoftId |-> None,
               oAuthAccessToken |-> NoTokens, oAuthRefreshToken |-> NoTokens]
  IN [base EXCEPT
        ![IdField(type)] = oauthId,
        !.oAuthAccessToken[type] = TokenOf(tok, "accessToken")]

\* new User({...}) with the provider id and the tokens set (lines 374-391)
NewOAuthUser(id, type, oauthId, email, displayName, avatarUrl, slug, tok) ==
  LET base == [_id |-> id, email |-> email, displayName |-> displayName,
               avatarUrl |-> avatarUrl, slug |-> slug, defaultTeamSlug |-> None,
               googleId |-> None, microsoftId |-> None,
               oAuthAccessToken |-> NoTokens, oAuthRefreshToken |-> NoTokens]
  IN [base EXCEPT
        ![IdField(type)] = oauthId,
        !.oAuthAccessToken[type] = TokenOf(tok, "accessToken"),
        !.oAuthRefreshToken[type] = TokenOf(tok, "refreshToken")]

\* What the caller passes.  type, oauthId and email are read by the lookup.  The
\* tokens are read after it: at once when a user is found (lines 349-364 run
\* without an await), after generateSlug when none is (lines 385-391); the model
\* draws them where they are read.
SignInCall(type, oauthId, email) ==
  [op |-> "signInOrSignUp", type |-> type, oauthId |-> oauthId, email |-> email,
   displayName |-> ProfileName(oauthId), avatarUrl |-> ProfileAvatar(type)]

\* line 327: if (!oauthId) throw
SignInNoId(p) ==
  \E type \in Types, email \in Emails :
    /\ Begin(p, [SignInCall(type, None, email) EXCEPT !.displayName = "ann"])
    /\ Finish(p, Err("oauthId is required"))
    /\ UNCHANGED <<users, External, local>>

\* lines 325-364: the lookup; with a user found, the early return when no tokens
\* are supplied, else the in-memory merge up to the await of user.save()
SignInFind(p) ==
  \E type \in Types, oauthId \in OAuthIds, email \in Emails :
    \E user \in FindOne(users, type, email, oauthId) :
      /\ Begin(p, SignInCall(type, oauthId, email))
      /\ IF user # NoUser
         THEN \E tok \in OAuthTokens :
                /\ local' = [local EXCEPT ![p].user = user, ![p].oauthToken = tok]
                /\ IF IsEmpty(tok) THEN Finish(p, Ok(user)) ELSE Goto(p, "saveExisting")
         ELSE /\ local' = [local EXCEPT ![p].user = user]
              /\ Goto(p, "slug")
      /\ UNCHANGED <<users, External>>

\* lines 352-369: the merged provider id and tokens are saved, the user returned
SignInSaveExisting(p) ==
  /\ pc[p] = "saveExisting"
  /\ Running
  /\ LET c == call[p]
         loaded == local[p].user
         changed == Merge(loaded, c.type, c.oauthId, local[p].oauthToken)
         doc == Delta(users[loaded._id], loaded, changed, c.type)
         err == DbError(users, doc, FALSE)
     IN IF err # None
        THEN Finish(p, Err(err)) /\ UNCHANGED users
        ELSE Finish(p, Ok(changed)) /\ users' = Put(users, doc)
  /\ UNCHANGED <<External, call, local, calls>>

\* line 372 (and 441): await generateSlug(this, name)
Slug(p) ==
  /\ pc[p] = "slug"
  /\ Running
  /\ local' = [local EXCEPT ![p].slug =
       GenerateSlug(users, IF call[p].op = "signInOrSignUp"
                           THEN call[p].displayName ELSE call[p].email)]
  /\ Goto(p, "create")
  /\ UNCHANGED <<users, External, call, calls>>

\* the welcome steps without the test of line 407: the email goes out to invited users too
WelcomeIgnoresInvitation(p, loc, value) ==
  \E hasInvitation \in BOOLEAN, emailTemplate \in BOOLEAN :
    IF ~emailTemplate
    THEN /\ local' = [local EXCEPT ![p] = [loc EXCEPT !.hasInvitation = hasInvitation]]
         /\ Finish(p, Err("welcome Email template not found"))
    ELSE \E mail \in {"sent", "failed"}, subscribe \in {"done", "failed"} :
           /\ local' = [local EXCEPT ![p] = [loc EXCEPT !.hasInvitation = hasInvitation,
                                                       !.mail = mail,
                                                       !.subscribe = subscribe]]
           /\ Finish(p, Ok(value))

\* the welcome steps without the try/catch of lines 420-424: a failed subscribe throws
WelcomeSubscribeThrows(p, loc, value) ==
  \E hasInvitation \in BOOLEAN, emailTemplate \in BOOLEAN :
    IF ~emailTemplate
    THEN /\ local' = [local EXCEPT ![p] = [loc EXCEPT !.hasInvitation = hasInvitation]]
         /\ Finish(p, Err("welcome Email template not found"))
    ELSE \E mail \in IF hasInvitation THEN {"none"} ELSE {"sent", "failed"},
            subscribe \in {"done", "failed"} :
           /\ local' = [local EXCEPT ![p] = [loc EXCEPT !.hasInvitation = hasInvitation,
                                                       !.mail = mail,
                                                       !.subscribe = subscribe]]
           /\ Finish(p, IF subscribe = "failed" THEN Err("Mailchimp error") ELSE Ok(value))

\* lines 395-429 (and 451-482), after the new user is saved: the welcome email and
\* the mailing-list subscription.  Invitation and EmailTemplate are other
\* collections: what they hold is an input; sendEmail and subscribe each succeed
\* or throw.  None of it reads or writes the users collection.
Welcome(p, loc, value) ==
  \E hasInvitation \in BOOLEAN, emailTemplate \in BOOLEAN :
    IF ~emailTemplate
    THEN /\ local' = [local EXCEPT ![p] = [loc EXCEPT !.hasInvitation = hasInvitation]]
         /\ Finish(p, Err("welcome Email template not found"))
    ELSE \E mail \in IF hasInvitation THEN {"none"} ELSE {"sent", "failed"},
            subscribe \in {"done", "failed"} :
           /\ local' = [local EXCEPT ![p] = [loc EXCEPT !.hasInvitation = hasInvitation,
                                                       !.mail = mail,
                                                       !.subscribe = subscribe]]
           /\ Finish(p, Ok(value))

\* lines 374-429: build the new user, save it, then the welcome steps
SignInCreate(p) ==
  /\ pc[p] = "create"
  /\ Running
  /\ call[p].op = "signInOrSignUp"
  /\ \E tok \in OAuthTokens :
       LET c == call[p]
           doc == NewOAuthUser(NewObjectId(users), c.type, c.oauthId, c.email, c.displayName,
                               c.avatarUrl, local[p].slug, tok)
           err == DbError(users, doc, TRUE)
       IN IF err # None
          THEN /\ Finish(p, Err(err))
               /\ local' = [local EXCEPT ![p].oauthToken = tok]
               /\ UNCHANGED users
          ELSE /\ users' = Put(users, doc)
               /\ Welcome(p, [local[p] EXCEPT !.user = doc, !.oauthToken = tok], doc)
  /\ UNCHANGED <<External, call, calls>>

(* ----------------------- UserClass.signUpByEmail ---------------------- *)

\* this.create({ _id: uid, createdAt, email, slug, defaultTeamSlug: '' })
NewEmailUser(uid, email, slug) ==
  [_id |-> uid, email |-> email, displayName |-> None, avatarUrl |-> None,
   slug |-> slug, defaultTeamSlug |-> None, googleId |-> None, microsoftId |-> None,
   oAuthAccessToken |-> NoTokens, oAuthRefreshToken |-> NoTokens]

\* publicFields(): the stored fields among them
PublicFields == {"_id", "displayName", "email", "avatarUrl", "slug", "defaultTeamSlug"}

\* _.pick(doc, publicFields()) and .select(publicFields().join(' '))
Pick(doc, fields) == [f \in fields |-> doc[f]]

\* the lookup against the wrong field
FindByEmailBySlug(us, email) ==
  IF \E id \in DOMAIN us : us[id].slug = email
  THEN us[CHOOSE id \in DOMAIN us : us[id].slug = email]
  ELSE NoUser

\* findOne({ email })
FindByEmail(us, email) ==
  IF \E id \in DOMAIN us : us[id].email = email
  THEN us[CHOOSE id \in DOMAIN us : us[id].email = email]
  ELSE NoUser

\* lines 432-439: the lookup by email, 'User already exists' when it finds one
SignUpFind(p) ==
  \E uid \in Uids, email \in Emails :
    /\ Begin(p, [op |-> "signUpByEmail", uid |-> uid, email |-> email])
    /\ IF FindByEmail(users, email) # NoUser
       THEN Finish(p, Err("User already exists"))
       ELSE Goto(p, "slug")
    /\ UNCHANGED <<users, External, local>>

\* lines 443-482: create the user, then the welcome steps
SignUpCreate(p) ==
  /\ pc[p] = "create"
  /\ Running
  /\ call[p].op = "signUpByEmail"
  /\ LET doc == NewEmailUser(call[p].uid, call[p].email, local[p].slug)
         err == DbError(users, doc, TRUE)
     IN IF err # None
        THEN Finish(p, Err(err)) /\ UNCHANGED <<users, local>>
        ELSE /\ users' = Put(users, doc)
             /\ Welcome(p, [local[p] EXCEPT !.user = doc], Pick(doc, PublicFields))
  /\ UNCHANGED <<External, call, calls>>

(* ----------------------- UserClass.updateProfile ---------------------- *)

\* findById(userId)
FindById(us, id) == IF id \in DOMAIN us THEN us[id] ELSE NoUser

\* lines 231-241: load the user; a changed name needs a new slug
UpdateFind(p) ==
  \E userId \in DOMAIN users \cup {"nobody"}, name \in Names :
    /\ Begin(p, [op |-> "updateProfile", userId |-> userId, name |-> name,
                 avatarUrl |-> "pic"])
    /\ LET user == FindById(users, userId)
       IN IF user = NoUser
          THEN Finish(p, Err("TypeError")) /\ UNCHANGED local
          ELSE /\ local' = [local EXCEPT ![p].user = Pick(user, {"_id", "slug", "displayName"}),
                                         ![p].slug = user.slug]
               /\ Goto(p, IF name # user.displayName THEN "updateSlug" ELSE "update")
    /\ UNCHANGED <<users, External>>

\* line 240: modifier.slug = await generateSlug(this, name)
UpdateSlug(p) ==
  /\ pc[p] = "updateSlug"
  /\ Running
  /\ local' = [local EXCEPT ![p].slug = GenerateSlug(users, call[p].name)]
  /\ Goto(p, "update")
  /\ UNCHANGED <<users, External, call, calls>>

\* lines 243-245: findByIdAndUpdate(userId, { $set: modifier }, { new: true })
Update(p) ==
  /\ pc[p] = "update"
  /\ Running
  /\ LET c == call[p]
         doc == [users[c.userId] EXCEPT !.displayName = c.name, !.avatarUrl = c.avatarUrl,
                                        !.slug = local[p].slug]
         err == DbError(users, doc, FALSE)
     IN IF err # None
        THEN Finish(p, Err(err)) /\ UNCHANGED users
        ELSE /\ users' = Put(users, doc)
             /\ Finish(p, Ok(Pick(doc, {"_id", "displayName", "avatarUrl", "slug"})))
  /\ UNCHANGED <<External, call, local, calls>>

(* ----------------- UserClass.checkPermissionAndGetTeam ----------------- *)

\* Array.prototype.indexOf: the first index of x (from 0), -1 when absent
IndexOf(seq, x) ==
  IF \E i \in 1..Len(seq) : seq[i] = x
  THEN (CHOOSE i \in 1..Len(seq) : seq[i] = x /\ \A j \in 1..(i - 1) : seq[j] # x) - 1
  ELSE -1

\* Team.findById(teamId).select('memberIds')
FindTeam(ts, teamId) ==
  IF teamId \in DOMAIN ts THEN [_id |-> teamId, memberIds |-> ts[teamId].memberIds] ELSE NoTeam

\* the check without the member test of line 522
CheckPermissionNoMembership(ts, userId, teamId) ==
  IF userId = None \/ teamId = None THEN Err("Bad data")
  ELSE LET team == FindTeam(ts, teamId)
       IN IF team = NoTeam THEN Err("Team not found") ELSE Ok(team)

\* lines 513-527: what checkPermissionAndGetTeam returns or throws
CheckPermission(ts, userId, teamId) ==
  IF userId = None \/ teamId = None THEN Err("Bad data")
  ELSE LET team == FindTeam(ts, teamId)
       IN IF team = NoTeam \/ IndexOf(team.memberIds, userId) = -1
          THEN Err("Team not found")
          ELSE Ok(team)

TeamCall(op, userId, teamId) == [op |-> op, userId |-> userId, teamId |-> teamId]

CheckPermissionAndGetTeam(p) ==
  \E userId \in Uids \cup {None}, teamId \in TeamIds \cup {None} :
    /\ Begin(p, TeamCall("checkPermissionAndGetTeam", userId, teamId))
    /\ Finish(p, CheckPermission(teams, userId, teamId))
    /\ UNCHANGED <<users, External, local>>

\* line 318: const team = await this.checkPermissionAndGetTeam({ userId, teamId })
GetTeamMembersCheck(p) ==
  \E userId \in Uids \cup {None}, teamId \in TeamIds \cup {None} :
    /\ Begin(p, TeamCall("getTeamMembers", userId, teamId))
    /\ LET res == CheckPermission(teams, userId, teamId)
       IN IF res.status = "error"
          THEN Finish(p, res) /\ UNCHANGED local
          ELSE local' = [local EXCEPT ![p].team = res.value] /\ Goto(p, "members")
    /\ UNCHANGED <<users, External>>

\* lines 320-322: find({ _id: { $in: team.memberIds } }).select(publicFields)
GetTeamMembersFind(p) ==
  /\ pc[p] = "members"
  /\ Running
  /\ LET ids == {local[p].team.memberIds[i] : i \in 1..Len(local[p].team.memberIds)}
     IN Finish(p, Ok({Pick(users[id], PublicFields) : id \in ids \cap DOMAIN users}))
  /\ UNCHANGED <<users, External, call, local, calls>>

\* the request is over
Return(p) ==
  /\ pc[p] = "done"
  /\ pc' = [pc EXCEPT ![p] = "idle"]
  /\ call' = [call EXCEPT ![p] = NoCall]
  /\ local' = [local EXCEPT ![p] = NoLocal]
  /\ result' = [result EXCEPT ![p] = NoResult]
  /\ UNCHANGED <<users, External, calls>>

Next ==
  \E p \in Procs :
    \/ SignInNoId(p)
    \/ SignInFind(p)
    \/ SignInSaveExisting(p)
    \/ Slug(p)
    \/ SignInCreate(p)
    \/ SignUpFind(p)
    \/ SignUpCreate(p)
    \/ UpdateFind(p)
    \/ UpdateSlug(p)
    \/ Update(p)
    \/ Return(p)

Spec == Init /\ [][Next]_vars

\* the team operations, over the users that email sign-up creates
NextTeam ==
  \E p \in Procs :
    \/ CheckPermissionAndGetTeam(p)
    \/ GetTeamMembersCheck(p)
    \/ GetTeamMembersFind(p)
    \/ SignUpFind(p)
    \/ Slug(p)
    \/ SignUpCreate(p)
    \/ Return(p)

SpecTeam == InitTeam /\ [][NextTeam]_vars

(* ------------------------- setupPassport routes ----------------------- *)

URL_APP == "http://app"

\* if (v) of the source
Truthy(v) == v.type = "array" \/ (v.type = "string" /\ v.value # "")

\* String.prototype.startsWith
StartsWith(s, prefix) == Len(s) >= Len(prefix) /\ SubSeq(s, 1, Len(prefix)) = prefix

\* what a browser may send as ?next= : nothing, '', a path, another path, an
\* absolute URL, or the parameter twice (the query parser makes it an array)
NextQueries == {Undefined, Str(""), Str("/a"), Str("/b"), Str("http://e"), Arr(<<"/a", "/b">>)}
InvitationQueries == {Undefined, Str("i1"), Str("i2")}
Queries == [next : NextQueries, invitationToken : InvitationQueries]

\* what the verify callback may hand over: signInOrSignUp's user, whose
\* defaultTeamSlug is '' until the user has a team
AuthUsers == {[_id |-> "u1", defaultTeamSlug |-> ""], [_id |-> "u2", defaultTeamSlug |-> "team-a"]}

\* req.query.next.startsWith is not a function
HasStartsWith(v) == v.type = "string"

NextUrl(q) == IF Truthy(q.next) /\ StartsWith(q.next.value, "/") THEN q.next ELSE Null

InvitationToken(q) == IF Truthy(q.invitationToken) THEN q.invitationToken ELSE Null

\* GET /auth/<type>
AuthRequest(type) ==
  \E q \in Queries :
    /\ query' = q
    /\ IF Truthy(q.next) /\ ~HasStartsWith(q.next)
         THEN /\ session' = session
              /\ response' = [handler |-> "auth", type |-> type, status |-> "error", error |-> "TypeError"]
         ELSE /\ session' = [session EXCEPT !.next_url = NextUrl(q),
                                            !.invitationToken = InvitationToken(q)]
              /\ response' = [handler |-> "auth", type |-> type, status |-> "redirect", location |-> "provider"]
    /\ UNCHANGED <<users, teams, pc, call, local, result, calls>>

RedirectUrlAfterLogin(sess, user) ==
  IF Truthy(sess.next_url)
    THEN sess.next_url.value
    ELSE IF user.defaultTeamSlug = ""
      THEN "/create-team"
      ELSE "/team/" \o user.defaultTeamSlug \o "/discussions"

\* GET /oauth2<type>: the strategy fails, the verify callback passes an error
\* on, or it passes a user on and the route's handler runs
OAuthCallback(type) ==
  /\ \/ /\ response' = [handler |-> "callback", type |-> type, status |-> "redirect", location |-> "/login",
                     user |-> NoUser, invited |-> Null]
        /\ UNCHANGED session
     \/ /\ response' = [handler |-> "callback", type |-> type, status |-> "error", error |-> "verify"]
        /\ UNCHANGED session
     \/ \E user \in AuthUsers :
          /\ session' = [session EXCEPT !.user = user._id]
          /\ response' = [handler |-> "callback", type |-> type, status |-> "redirect",
                     location |-> URL_APP \o RedirectUrlAfterLogin(session, user),
                     user |-> user,
                     invited |-> IF Truthy(session.invitationToken) THEN session.invitationToken ELSE Null]
  /\ UNCHANGED <<users, teams, pc, call, local, result, calls, query>>

NextAuth ==
  \E type \in Types :
    \/ AuthRequest(type)
    \/ OAuthCallback(type)

SpecAuth == Init /\ [][NextAuth]_vars

(* ------------------------------- claims -------------------------------- *)

DuplicateKeyError == Err("E11000 duplicate key")

\* request p ends in this step
Ends(p) == pc[p] # "done" /\ pc'[p] = "done"

\* request p starts in this step
Starts(p) == pc[p] = "idle" /\ pc'[p] # "idle"

\* the users that hold oauthId as their id for provider type
Holders(us, type, oauthId) == {id \in DOMAIN us : us[id][IdField(type)] = oauthId}

\* the users with this email and no id for provider type
Unlinked(us, type, email) ==
  {id \in DOMAIN us : us[id].email = email /\ us[id][IdField(type)] = None}

\* C1 as stated: every signInOrSignUp call that finds, by its email, a user with no
\* id for the provider leaves the number of users unchanged and that user's
\* <type>Id equal to the supplied oauthId.
C1_AttachesOnEveryCall ==
  [][\A p \in Procs :
       (/\ Ends(p)
        /\ call'[p].op = "signInOrSignUp"
        /\ local'[p].user # NoUser
        /\ local'[p].user.email = call'[p].email
        /\ local'[p].user[IdField(call'[p].type)] = None)
       => /\ Cardinality(DOMAIN users') = Cardinality(DOMAIN users)
          /\ users'[local'[p].user._id][IdField(call'[p].type)] = call'[p].oauthId]_vars

\* C1 amended: a signInOrSignUp call with a non-empty oauthToken, whose email is
\* that of a stored user with no id for the provider and whose oauthId no stored
\* user holds, resolves to that user and creates no user; its save succeeds and
\* leaves that user's <type>Id equal to the supplied oauthId, unless another user
\* has been given the same oauthId in the meantime: then the save fails with the
\* duplicate-key error and writes nothing.
C1_AttachesProviderId ==
  [][\A p \in Procs :
       /\ (Starts(p) /\ call'[p].op = "signInOrSignUp" /\ call'[p].oauthId # None)
          => LET c == call'[p]
             IN (Unlinked(users, c.type, c.email) # {} /\ Holders(users, c.type, c.oauthId) = {})
                => /\ local'[p].user \in {users[id] : id \in Unlinked(users, c.type, c.email)}
                   /\ users' = users
                   /\ (pc'[p] = "saveExisting") = ~IsEmpty(local'[p].oauthToken)
       /\ (pc[p] = "saveExisting" /\ Ends(p))
          => LET c == call[p]
                 u == local[p].user
             IN (u.email = c.email /\ u[IdField(c.type)] = None)
                => /\ DOMAIN users' = DOMAIN users
                   /\ IF Holders(users, c.type, c.oauthId) \ {u._id} # {}
                      THEN result'[p] = DuplicateKeyError /\ users' = users
                      ELSE /\ result'[p].status = "ok"
                           /\ result'[p].value._id = u._id
                           /\ users'[u._id][IdField(c.type)] = c.oauthId]_vars

\* C1 witness: a sign-in with tokens found by email a user without the provider's
\* id, and the stored user now carries the supplied id.
C1_Witness ==
  \E p \in Procs :
    /\ pc[p] = "done"
    /\ call[p].op = "signInOrSignUp"
    /\ local[p].user # NoUser
    /\ local[p].user.email = call[p].email
    /\ local[p].user[IdField(call[p].type)] = None
    /\ ~IsEmpty(local[p].oauthToken)
    /\ result[p].status = "ok"
    /\ users[local[p].user._id][IdField(call[p].type)] = call[p].oauthId

\* C2: a signInOrSignUp call whose lookup matches no user goes on to create; its
\* create step either fails and writes nothing, or adds exactly one user, which
\* carries the supplied email, provider id and tokens and a slug no other user
\* has; a successful call returns that user.
C2_CreatesOneAccount ==
  [][\A p \in Procs :
       /\ (Starts(p) /\ call'[p].op = "signInOrSignUp" /\ call'[p].oauthId # None)
          => LET c == call'[p]
             IN (\A id \in DOMAIN users :
                    users[id].email # c.email /\ users[id][IdField(c.type)] # c.oauthId)
                => pc'[p] = "slug" /\ users' = users
       /\ (pc[p] = "slug" /\ pc'[p] # "slug") => users' = users
       /\ (pc[p] = "create" /\ Ends(p) /\ call[p].op = "signInOrSignUp")
          => LET c == call[p]
                 tok == local'[p].oauthToken
                 new == DOMAIN users' \ DOMAIN users
             IN \/ result'[p].status = "error" /\ users' = users
                \/ /\ Cardinality(new) = 1
                   /\ \A id \in DOMAIN users : users'[id] = users[id]
                   /\ \A id \in new :
                        /\ users'[id].email = c.email
                        /\ users'[id][IdField(c.type)] = c.oauthId
                        /\ users'[id].oAuthAccessToken[c.type] = TokenOf(tok, "accessToken")
                        /\ users'[id].oAuthRefreshToken[c.type] = TokenOf(tok, "refreshToken")
                        /\ \A o \in DOMAIN users : users[o].slug # users'[id].slug
                        /\ result'[p].status = "ok" => result'[p].value = users'[id]]_vars

\* C2 witness: a sign-in created a second account, with both tokens, and returned it.
C2_Witness ==
  \E p \in Procs :
    /\ pc[p] = "done"
    /\ call[p].op = "signInOrSignUp"
    /\ local[p].slug # None
    /\ result[p].status = "ok"
    /\ result[p].value = users[result[p].value._id]
    /\ TokenOf(local[p].oauthToken, "refreshToken") # None
    /\ users[result[p].value._id].oAuthRefreshToken[call[p].type] # None
    /\ Cardinality(DOMAIN users) = 2

\* C3: in every reachable state no two users share an email, a slug, a googleId
\* or a microsoftId.
C3_UniqueIdentity ==
  \A a, b \in DOMAIN users :
    a # b => /\ users[a].email # users[b].email
             /\ users[a].slug # users[b].slug
             /\ users[a].googleId = None \/ users[a].googleId # users[b].googleId
             /\ users[a].microsoftId = None \/ users[a].microsoftId # users[b].microsoftId

\* C3 witness: two users, both with a googleId, and a write an index has refused.
C3_Witness ==
  /\ \E a, b \in DOMAIN users :
       a # b /\ users[a].googleId # None /\ users[b].googleId # None
  /\ \E p \in Procs : pc[p] = "done" /\ result[p] = DuplicateKeyError

\* C4: a request that found no user in its lookup and reaches its write when a
\* user with its email has been stored meanwhile fails with the duplicate-key
\* error, writes nothing and ends there; no email is ever held by two users.
C4_LoserFails ==
  [][\A p \in Procs :
       /\ (pc[p] = "create" /\ pc'[p] # "create"
           /\ \E id \in DOMAIN users : users[id].email = call[p].email)
          => /\ pc'[p] = "done"
             /\ result'[p] = DuplicateKeyError
             /\ users' = users
       /\ \A a, b \in DOMAIN users' : a # b => users'[a].email # users'[b].email]_vars

\* C4 witness: a sign-in that found nobody lost the race for its email, and only
\* for its email: its slug and its provider id are free.
C4_Witness ==
  \E p \in Procs :
    /\ pc[p] = "done"
    /\ call[p].op = "signInOrSignUp"
    /\ local[p].user = NoUser
    /\ local[p].slug # None
    /\ result[p] = DuplicateKeyError
    /\ \E id \in DOMAIN users : users[id].email = call[p].email
    /\ \A id \in DOMAIN users : users[id].slug # local[p].slug
    /\ Holders(users, call[p].type, call[p].oauthId) = {}

\* C5: signUpByEmail with the email of a stored user throws 'User already exists',
\* creates no record and sends neither the welcome email nor the subscription.
C5_SecondSignUpFails ==
  [][\A p \in Procs :
       (Starts(p) /\ call'[p].op = "signUpByEmail"
        /\ \E id \in DOMAIN users : users[id].email = call'[p].email)
       => /\ pc'[p] = "done"
          /\ result'[p] = Err("User already exists")
          /\ users' = users
          /\ local'[p].mail = "none"
          /\ local'[p].subscribe = "none"]_vars

\* C5 witness: an email sign-up was refused for the email of a user that an OAuth
\* sign-in created.
C5_Witness ==
  \E p \in Procs :
    /\ pc[p] = "done"
    /\ call[p].op = "signUpByEmail"
    /\ result[p] = Err("User already exists")
    /\ \E id \in DOMAIN users : users[id].email = call[p].email /\ users[id].googleId # None

\* the members of a team
Members(ts, teamId) == {ts[teamId].memberIds[i] : i \in 1..Len(ts[teamId].memberIds)}

\* C6: checkPermissionAndGetTeam, and getTeamMembers through it, throws when the
\* user id or the team id is absent, when no team has the id, or when the user is
\* not among the team's members; otherwise it gives the team record; neither
\* writes a team or a user.
C6_PermissionCheck ==
  [][\A p \in Procs :
       /\ (Starts(p) /\ call'[p].op \in {"checkPermissionAndGetTeam", "getTeamMembers"})
          => LET c == call'[p]
                 allowed == /\ c.userId # None
                            /\ c.teamId # None
                            /\ c.teamId \in DOMAIN teams
                            /\ c.userId \in Members(teams, c.teamId)
             IN /\ teams' = teams
                /\ users' = users
                /\ IF ~allowed
                   THEN pc'[p] = "done" /\ result'[p].status = "error"
                   ELSE LET team == [_id |-> c.teamId, memberIds |-> teams[c.teamId].memberIds]
                        IN IF c.op = "checkPermissionAndGetTeam"
                           THEN pc'[p] = "done" /\ result'[p] = Ok(team)
                           ELSE pc'[p] = "members" /\ local'[p].team = team
       /\ (pc[p] = "members" /\ Ends(p))
          => /\ teams' = teams
             /\ users' = users
             /\ result'[p].status = "ok"]_vars

\* C6 witness: getTeamMembers passed the check and returned a stored member.
C6_Witness ==
  \E p \in Procs :
    /\ pc[p] = "done"
    /\ call[p].op = "getTeamMembers"
    /\ result[p].status = "ok"
    /\ result[p].value # {}

Created(p) == pc[p] = "done" /\ call[p].op \in {"signInOrSignUp", "signUpByEmail"}

TemplateError == Err("welcome Email template not found")

\* C7 as stated: when an invitation exists for the email of an account that
\* signInOrSignUp or signUpByEmail has created, no welcome email is sent, the
\* account is stored and the subscription is attempted.
C7_InvitedStillSubscribed ==
  \A p \in Procs :
    (Created(p) /\ local[p].hasInvitation)
    => /\ local[p].mail = "none"
       /\ local[p].user._id \in DOMAIN users
       /\ users[local[p].user._id] = local[p].user
       /\ local[p].subscribe # "none"

\* C7 amended: when an invitation exists for the email of an account that
\* signInOrSignUp or signUpByEmail has created, no welcome email is sent and the
\* account is stored; the subscription is attempted when the welcome template is
\* found, and when it is not the call throws 'welcome Email template not found'
\* before any subscription.
C7_InvitedNoWelcome ==
  \A p \in Procs :
    (Created(p) /\ local[p].hasInvitation)
    => /\ local[p].mail = "none"
       /\ local[p].user._id \in DOMAIN users
       /\ users[local[p].user._id] = local[p].user
       /\ IF result[p] = TemplateError
          THEN local[p].subscribe = "none"
          ELSE result[p].status = "ok" /\ local[p].subscribe # "none"

\* C7 witness: an account was created under an invitation, no email went out and
\* the subscription was attempted.
C7_Witness ==
  \E p \in Procs :
    /\ Created(p)
    /\ local[p].hasInvitation
    /\ local[p].mail = "none"
    /\ local[p].subscribe = "done"
    /\ local[p].user._id \in DOMAIN users

WithEmail(us, email) == {id \in DOMAIN us : us[id].email = email}

\* C9 as stated: when the email of a signInOrSignUp call belongs to user A and its
\* provider id to another user B, the lookup resolves to A, the call returns A,
\* and B is left unchanged.
C9_EmailPriority ==
  [][\A p \in Procs :
       /\ (Starts(p) /\ call'[p].op = "signInOrSignUp" /\ call'[p].oauthId # None)
          => LET c == call'[p]
                 A == WithEmail(users, c.email)
                 B == Holders(users, c.type, c.oauthId) \ A
             IN (A # {} /\ B # {}) => local'[p].user \in {users[id] : id \in A}
       /\ (Ends(p) /\ call'[p].op = "signInOrSignUp" /\ local'[p].user # NoUser
           /\ local'[p].slug = None)
          => LET c == call'[p]
                 A == WithEmail(users, c.email)
                 B == Holders(users, c.type, c.oauthId) \ A
             IN (A # {} /\ B # {})
                => /\ result'[p].status = "ok"
                   /\ result'[p].value._id \in A
                   /\ \A b \in B : users'[b] = users[b]]_vars

Authenticated == response.handler = "callback" /\ response.status = "redirect" /\ response.user # NoUser

\* C11: after a successful authentication the callback redirects to the
\* session's next_url when one is set, otherwise to '/create-team' when the
\* user has no default team slug, otherwise to '/team/<slug>/discussions';
\* and after any '/auth/<type>' request the session's next_url is the latest
\* request's `next` when that starts with '/', and null otherwise; likewise
\* invitationToken is the latest request's token, or null.
C11_RedirectAndSession ==
  /\ Authenticated =>
       response.location = URL_APP \o
         (IF session.next_url \notin {Null, Undefined}
            THEN session.next_url.value
            ELSE IF response.user.defaultTeamSlug = "" THEN "/create-team"
            ELSE "/team/" \o response.user.defaultTeamSlug \o "/discussions")
  /\ IF query.next.type = "string" /\ StartsWith(query.next.value, "/")
       THEN session.next_url = query.next
       ELSE session.next_url \in {Null, Undefined}
  /\ IF query.invitationToken.type = "string"
       THEN session.invitationToken = query.invitationToken
       ELSE session.invitationToken \in {Null, Undefined}

(* ---- C12 ---- *)

\* the request whose save is this step wrote with the provider id the account now stores
WrittenBySignInOf(id, type) ==
  \E p \in Procs :
    /\ Ends(p)
    /\ call[p].op = "signInOrSignUp"
    /\ call[p].type = type
    /\ call[p].oauthId = users'[id][IdField(type)]

\* C12: a provider id, once set on an account, is never changed or cleared,
\* and the stored tokens of a provider are only written by a sign-in whose
\* provider id equals the id the account stores for that provider.
C12_ProviderIdStable ==
  [][\A id \in DOMAIN users : \A type \in Types :
       /\ users[id][IdField(type)] # None =>
            users'[id][IdField(type)] = users[id][IdField(type)]
       /\ (\/ users'[id].oAuthAccessToken[type] # users[id].oAuthAccessToken[type]
           \/ users'[id].oAuthRefreshToken[type] # users[id].oAuthRefreshToken[type]) =>
            WrittenBySignInOf(id, type)]_vars
====
